---- MODULE Spec2Model ----
(***************************************************************************)
(* LroLrocPds3LabelNaifSpiceDriver (ale/drivers/lro_drivers.py): the       *)
(* property overrides of the LROC NAC driver, as a state machine.  A step  *)
(* is one property read on a driver instance, or a change the environment  *)
(* makes to the metakernel directory or to the product's start year.       *)
(*                                                                         *)
(* Python values are tagged records: None, Str(s), Float(n), Dict(f),      *)
(* List(s); an exception leaving a property is Raise(e).  Paths and file   *)
(* names are sequences of one-character strings.  Times are fixed-point    *)
(* integers counting 1/One of a second.                                    *)
(***************************************************************************)
EXTENDS Integers, Sequences, FiniteSets, TLC

VARIABLES
    label,                   \* self.label: the parsed PDS3 label, key -> value
    base_instrument_id,      \* super().instrument_id
    instrument_host_id,      \* self.instrument_host_id (label_pds3)
    base_exposure_duration,  \* super().exposure_duration, whole seconds
    ikid,                    \* self.ikid (data_naif)
    spacecraft_id,           \* self.spacecraft_id (data_naif)
    utc_start_year,          \* self.utc_start_time.year
    config_lro,              \* config.lro: the metakernel directory
    files,                   \* the names of the files in config.lro
    pool,                    \* the SPICE kernel pool: variable name -> values
    sclk,                    \* the SPICE clock kernel: <<sc, count>> -> seconds
    attrs,                   \* the instance attributes this class sets on self
    op,                      \* the property read last ("" before any read)
    ret                      \* what that read returned (or raised)

vars == <<label, base_instrument_id, instrument_host_id, base_exposure_duration,
          ikid, spacecraft_id, utc_start_year, config_lro, files, pool, sclk,
          attrs, op, ret>>

inputs == <<label, base_instrument_id, instrument_host_id, base_exposure_duration,
            ikid, spacecraft_id, config_lro, pool, sclk>>

env == <<files, utc_start_year>>

-----------------------------------------------------------------------------
(* Bounds of the model *)

MaxFiles == 2      \* files in the metakernel directory
MaxExposure == 3   \* base exposure duration, in whole seconds
MaxEt == 2         \* ephemeris seconds the clock kernel maps a count to
MaxPoolLen == 2    \* values stored under one kernel pool variable

-----------------------------------------------------------------------------
(* Python values *)

None == [t |-> "None"]
Str(s) == [t |-> "str", v |-> s]
Float(n) == [t |-> "float", v |-> n]
PyInt(n) == [t |-> "int", v |-> n]
List(s) == [t |-> "list", v |-> s]
Dict(f) == [t |-> "dict", v |-> f]
Raise(e) == [t |-> "raise", v |-> e]

NoAttrs == [a \in {} |-> None]

-----------------------------------------------------------------------------
(* Strings: str(int), substring test, ordering by code point *)

Digits == <<"0", "1", "2", "3", "4", "5", "6", "7", "8", "9">>

RECURSIVE str(_)
str(n) == IF n < 10 THEN <<Digits[n + 1]>>
          ELSE str(n \div 10) \o <<Digits[(n % 10) + 1]>>

\* sub in s
Contains(s, sub) ==
    \E i \in 1..(Len(s) + 1) :
        /\ i + Len(sub) - 1 <= Len(s)
        /\ SubSeq(s, i, i + Len(sub) - 1) = sub

EndsWith(s, suffix) ==
    /\ Len(suffix) <= Len(s)
    /\ SubSeq(s, Len(s) - Len(suffix) + 1, Len(s)) = suffix

ord(c) ==
    CASE c = "*" -> 42 [] c = "." -> 46 [] c = "/" -> 47
      [] c = "0" -> 48 [] c = "1" -> 49 [] c = "2" -> 50 [] c = "3" -> 51
      [] c = "4" -> 52 [] c = "5" -> 53 [] c = "6" -> 54 [] c = "7" -> 55
      [] c = "8" -> 56 [] c = "9" -> 57
      [] c = "d" -> 100 [] c = "m" -> 109 [] c = "t" -> 116 [] c = "x" -> 120

\* a < b for Python strings
RECURSIVE StrLess(_, _)
StrLess(a, b) ==
    IF b = <<>> THEN FALSE
    ELSE IF a = <<>> THEN TRUE
    ELSE IF ord(Head(a)) # ord(Head(b)) THEN ord(Head(a)) < ord(Head(b))
    ELSE StrLess(Tail(a), Tail(b))

\* sorted(S) for a collection of distinct strings
RECURSIVE sorted(_)
sorted(S) ==
    IF S = {} THEN <<>>
    ELSE LET least == CHOOSE a \in S : \A b \in S \ {a} : StrLess(a, b)
         IN <<least>> \o sorted(S \ {least})

-----------------------------------------------------------------------------
(* os.path and glob *)

\* the index of the last "/" in p, 0 when there is none
LastSep(p) ==
    IF \E i \in 1..Len(p) : p[i] = "/"
    THEN CHOOSE i \in 1..Len(p) : p[i] = "/" /\ \A j \in (i + 1)..Len(p) : p[j] # "/"
    ELSE 0

basename(p) == SubSeq(p, LastSep(p) + 1, Len(p))

dirname(p) == IF LastSep(p) <= 1 THEN SubSeq(p, 1, LastSep(p))
              ELSE SubSeq(p, 1, LastSep(p) - 1)

os_path_join(a, b) ==
    IF b # <<>> /\ Head(b) = "/" THEN b
    ELSE IF a = <<>> \/ a[Len(a)] = "/" THEN a \o b
    ELSE a \o <<"/">> \o b

\* fnmatch for the patterns "*<suffix>" and "<literal>"
fnmatch(name, pat) ==
    IF pat # <<>> /\ Head(pat) = "*" THEN EndsWith(name, Tail(pat))
    ELSE name = pat

listdir(d) == IF d = config_lro THEN files ELSE {}

\* glob(pathname): the names of dirname that match basename, joined to dirname;
\* a pattern that does not start with "." matches no hidden file
glob(pathname) ==
    LET d == dirname(pathname)
        pat == basename(pathname)
        hidden(n) == n # <<>> /\ Head(n) = "."
        names == {n \in listdir(d) :
                     /\ fnmatch(n, pat)
                     /\ (hidden(n) => hidden(pat))}
    IN {os_path_join(d, n) : n \in names}

-----------------------------------------------------------------------------
(* The label *)

FRAME_ID == "FRAME_ID"
SPACECRAFT_NAME == "SPACECRAFT_NAME"
PREROLL_COUNT == "LRO:SPACECRAFT_CLOCK_PREROLL_COUNT"

\* self.label.get(key)
label_get(key) == IF key \in DOMAIN label THEN Str(label[key]) ELSE None

\* self.label[key]
label_getitem(key) == IF key \in DOMAIN label THEN Str(label[key])
                      ELSE Raise("KeyError")

-----------------------------------------------------------------------------
(* The properties of LroLrocPds3LabelNaifSpiceDriver *)

\* instrument_id with self.label["FRAME_ID"] in place of self.label.get("FRAME_ID")
instrument_id_getitem ==
    LET instrument == Str(base_instrument_id)
        frame_id == label_getitem(FRAME_ID)
    IN IF frame_id.t = "raise" THEN frame_id
       ELSE IF instrument = Str("LROC") /\ frame_id = Str("LEFT")
       THEN Str("LRO_LROCNACL")
       ELSE IF instrument = Str("LROC") /\ frame_id = Str("RIGHT")
       THEN Str("LRO_LROCNACR")
       ELSE None

\* instrument_id without the test of the base instrument id
instrument_id_any_instrument ==
    LET frame_id == label_get(FRAME_ID)
    IN IF frame_id = Str("LEFT") THEN Str("LRO_LROCNACL")
       ELSE IF frame_id = Str("RIGHT") THEN Str("LRO_LROCNACR")
       ELSE None

instrument_id ==
    LET instrument == Str(base_instrument_id)
        frame_id == label_get(FRAME_ID)
    IN IF instrument = Str("LROC") /\ frame_id = Str("LEFT")
       THEN Str("LRO_LROCNACL")
       ELSE IF instrument = Str("LROC") /\ frame_id = Str("RIGHT")
       THEN Str("LRO_LROCNACR")
       ELSE None

\* the loop with a break at the first match
RECURSIVE metakernel_loop_break(_, _, _)
metakernel_loop_break(mks, i, cur) ==
    IF i > Len(mks) THEN cur
    ELSE IF Contains(basename(mks[i]), str(utc_start_year)) THEN Str(mks[i])
    ELSE metakernel_loop_break(mks, i + 1, cur)

\* the loop over mks from position i on, self._metakernel being cur
RECURSIVE metakernel_loop(_, _, _)
metakernel_loop(mks, i, cur) ==
    IF i > Len(mks) THEN cur
    ELSE metakernel_loop(mks, i + 1,
             IF Contains(basename(mks[i]), str(utc_start_year))
             THEN Str(mks[i]) ELSE cur)

\* metakernel with the guard "self._metakernel is None" in place of hasattr
metakernel_self_while_none ==
    LET metakernel_dir == config_lro
        mks == sorted(glob(os_path_join(metakernel_dir, <<"*", ".", "t", "m">>)))
        unset == "_metakernel" \notin DOMAIN attrs
    IN IF unset \/ (~unset /\ attrs["_metakernel"] = None)
       THEN ("_metakernel" :> metakernel_loop(mks, 1, None)) @@ attrs
       ELSE attrs

\* the attributes of self when metakernel returns
metakernel_self ==
    LET metakernel_dir == config_lro
        mks == sorted(glob(os_path_join(metakernel_dir, <<"*", ".", "t", "m">>)))
    IN IF "_metakernel" \notin DOMAIN attrs
       THEN ("_metakernel" :> metakernel_loop(mks, 1, None)) @@ attrs
       ELSE attrs

metakernel == metakernel_self["_metakernel"]

\* spacecraft_name as the generic pipeline reads it, from the label
spacecraft_name_from_label == label_getitem(SPACECRAFT_NAME)

spacecraft_name == Str(instrument_host_id)

sensor_model_version == PyInt(2)

\* spice.gdpool(name, start, room)
gdpool(name, start, room) ==
    IF name \notin DOMAIN pool THEN Raise("SpiceyError")
    ELSE LET values == pool[name]
             last == IF start + room < Len(values) THEN start + room ELSE Len(values)
         IN List(SubSeq(values, start + 1, last))

\* 'INS{}_OD_K'.format(ikid)
OD_K(id) == <<"INS", id, "_OD_K">>

\* odtk asking the pool for two values
odtk_room_two == gdpool(OD_K(ikid), 0, 2)

odtk == gdpool(OD_K(ikid), 0, 1)

usgscsm_distortion_model ==
    IF odtk.t = "raise" THEN odtk
    ELSE Dict([lrolrocnac |-> Dict([coefficients |-> odtk])])

\* the generic pipeline's light time correction
light_time_correction_generic == Str("LT+S")

light_time_correction == Str("NONE")

\* 1 in fixed point: times count 1/One of a second
One == 10000

multipli_line_error == 45

additive_line_error == 0

constant_time_offset == 0

additional_preroll == 1024

\* exposure_duration scaled by the line error alone
exposure_duration_error_only ==
    Float(base_exposure_duration * multipli_line_error + additive_line_error)

exposure_duration ==
    Float(base_exposure_duration * (One + multipli_line_error) + additive_line_error)

\* spice.scs2e(sc, sclkch)
scs2e(sc, sclkch) == Float(sclk[<<sc, sclkch>>] * One)

\* ephemeris_start_time with the base pipeline's exposure duration
ephemeris_start_time_base_exposure ==
    LET count == label_getitem(PREROLL_COUNT)
    IN IF count.t = "raise" THEN count
       ELSE LET start_time == scs2e(spacecraft_id, count.v)
            IN Float(start_time.v + constant_time_offset
                     + additional_preroll * (base_exposure_duration * One))

ephemeris_start_time ==
    LET count == label_getitem(PREROLL_COUNT)
    IN IF count.t = "raise" THEN count
       ELSE LET start_time == scs2e(spacecraft_id, count.v)
            IN Float(start_time.v + constant_time_offset
                     + additional_preroll * exposure_duration.v)

\* a second property that caches its value on self
self_after_cached(prop) ==
    IF prop = "metakernel" THEN metakernel_self
    ELSE IF prop = "instrument_id" THEN ("_instrument_id" :> instrument_id) @@ attrs
    ELSE attrs

\* the attributes of self after a read of property prop
self_after(prop) == IF prop = "metakernel" THEN metakernel_self ELSE attrs

-----------------------------------------------------------------------------
(* Inputs *)

Absent == "<absent>"
FrameIds == {"LEFT", "RIGHT", "CENTER"}
SpacecraftNames == {"LRO", "LUNAR RECONNAISSANCE ORBITER"}
InstrumentIds == {"LROC", "LAMP", "LROC-WAC"}
ClockCounts == {"1/100:0", "1/200:0"}
SpacecraftIds == {-85}
IkIds == {-85600, -85610}
Coefficients == {18, 181}
Years == {1, 2, 3, 12, 21}
Dirs == {<<"d">>, <<"/", "1", "2">>}
StemChars == {"1", "2"}
Stems == {<<>>} \cup {<<a>> : a \in StemChars} \cup {<<a, b>> : a, b \in StemChars}
Exts == {<<".", "t", "m">>, <<".", "t", "x">>}
FileNames == {s \o e : s \in Stems, e \in Exts}

MakeLabel(frame, name, count) ==
    LET f == (FRAME_ID :> frame) @@ (SPACECRAFT_NAME :> name) @@ (PREROLL_COUNT :> count)
    IN [k \in {k \in DOMAIN f : f[k] # Absent} |-> f[k]]

PoolValues == UNION {[1..n -> Coefficients] : n \in 1..MaxPoolLen}
Pools == UNION {[{OD_K(i) : i \in I} -> PoolValues] : I \in SUBSET IkIds}

DefaultLabel == MakeLabel("LEFT", Absent, "1/100:0")
DefaultPool == [k \in {OD_K(i) : i \in IkIds} |-> <<18>>]
DefaultSclk == [k \in SpacecraftIds \X ClockCounts |-> 1]

Fresh == attrs = NoAttrs /\ op = "" /\ ret = None

LabelDefault ==
    /\ label = DefaultLabel
    /\ base_instrument_id = "LROC"
    /\ instrument_host_id = "LRO"

TimeDefault ==
    /\ base_exposure_duration = 1
    /\ spacecraft_id = -85
    /\ sclk = DefaultSclk

PoolDefault == ikid = -85600 /\ pool = DefaultPool

DirDefault == config_lro = <<"d">> /\ files = {} /\ utc_start_year = 1

\* products that differ in the label and in the base pipeline's identifiers
InitLabel ==
    /\ label \in {MakeLabel(f, n, "1/100:0") :
                     f \in FrameIds \cup {Absent}, n \in SpacecraftNames \cup {Absent}}
    /\ base_instrument_id \in InstrumentIds
    /\ instrument_host_id \in SpacecraftNames
    /\ TimeDefault /\ PoolDefault /\ DirDefault /\ Fresh

\* products that differ in the clock count, the exposure and the clock kernel
InitTime ==
    /\ label \in {MakeLabel("LEFT", Absent, c) : c \in ClockCounts \cup {Absent}}
    /\ base_instrument_id = "LROC"
    /\ instrument_host_id = "LRO"
    /\ base_exposure_duration \in 0..MaxExposure
    /\ spacecraft_id \in SpacecraftIds
    /\ sclk \in [SpacecraftIds \X ClockCounts -> 0..MaxEt]
    /\ PoolDefault /\ DirDefault /\ Fresh

\* products that differ in the instrument and in the kernel pool
InitPool ==
    /\ ikid \in IkIds
    /\ pool \in Pools
    /\ LabelDefault /\ TimeDefault /\ DirDefault /\ Fresh

\* products that differ in the metakernel directory and the start year
InitDir ==
    /\ config_lro \in Dirs
    /\ files \in {F \in SUBSET FileNames : Cardinality(F) <= MaxFiles}
    /\ utc_start_year \in Years
    /\ LabelDefault /\ TimeDefault /\ PoolDefault /\ Fresh

Init == InitLabel \/ InitTime \/ InitPool \/ InitDir

-----------------------------------------------------------------------------
(* Steps *)

\* a read of property prop that returns (or raises) value
Read(prop, value) ==
    /\ op' = prop
    /\ ret' = value
    /\ attrs' = self_after(prop)
    /\ UNCHANGED <<inputs, env>>

ReadInstrumentId == Read("instrument_id", instrument_id)
ReadMetakernel == Read("metakernel", metakernel)
ReadSpacecraftName == Read("spacecraft_name", spacecraft_name)
ReadSensorModelVersion == Read("sensor_model_version", sensor_model_version)
ReadUsgscsmDistortionModel == Read("usgscsm_distortion_model", usgscsm_distortion_model)
ReadOdtk == Read("odtk", odtk)
ReadLightTimeCorrection == Read("light_time_correction", light_time_correction)
ReadEphemerisStartTime == Read("ephemeris_start_time", ephemeris_start_time)
ReadExposureDuration == Read("exposure_duration", exposure_duration)

\* the environment: a file appears in, or goes from, the metakernel directory
AddFile ==
    /\ Cardinality(files) < MaxFiles
    /\ \E n \in FileNames \ files : files' = files \cup {n}
    /\ UNCHANGED <<inputs, utc_start_year, attrs, op, ret>>

RemoveFile ==
    /\ \E n \in files : files' = files \ {n}
    /\ UNCHANGED <<inputs, utc_start_year, attrs, op, ret>>

\* the environment: the product's start time changes
SetYear ==
    /\ \E y \in Years \ {utc_start_year} : utc_start_year' = y
    /\ UNCHANGED <<inputs, files, attrs, op, ret>>

Next ==
    \/ ReadInstrumentId
    \/ ReadMetakernel
    \/ ReadSpacecraftName
    \/ ReadSensorModelVersion
    \/ ReadUsgscsmDistortionModel
    \/ ReadOdtk
    \/ ReadLightTimeCorrection
    \/ ReadEphemerisStartTime
    \/ ReadExposureDuration

Spec == Init /\ [][Next]_vars

NextEnv == ReadMetakernel \/ AddFile \/ RemoveFile \/ SetYear

SpecEnv == InitDir /\ [][NextEnv]_vars

-----------------------------------------------------------------------------
(* Properties *)

Cached == "_metakernel" \in DOMAIN attrs

\* the *.tm names of the directory whose name holds the start year
Matching == {n \in files : EndsWith(n, <<".", "t", "m">>)
                           /\ Contains(n, str(utc_start_year))}

PathOf(n) == os_path_join(config_lro, n)

\* C1 as stated: instrument_id is the left channel's id for FRAME_ID "LEFT" and the
\* right channel's for "RIGHT" whatever the base instrument id is, and None for
\* every other FRAME_ID
C1_AnyInstrument ==
    op = "instrument_id" =>
        /\ label_get(FRAME_ID) = Str("LEFT") => ret = Str("LRO_LROCNACL")
        /\ label_get(FRAME_ID) = Str("RIGHT") => ret = Str("LRO_LROCNACR")
        /\ label_get(FRAME_ID) \notin {Str("LEFT"), Str("RIGHT")} => ret = None

\* C1 amended: with the base instrument id "LROC", instrument_id is "LRO_LROCNACL"
\* for FRAME_ID "LEFT" and "LRO_LROCNACR" for "RIGHT"; for every other FRAME_ID,
\* a missing one included, it is None; it never raises
C1_InstrumentId ==
    op = "instrument_id" =>
        /\ (base_instrument_id = "LROC" /\ label_get(FRAME_ID) = Str("LEFT"))
               => ret = Str("LRO_LROCNACL")
        /\ (base_instrument_id = "LROC" /\ label_get(FRAME_ID) = Str("RIGHT"))
               => ret = Str("LRO_LROCNACR")
        /\ label_get(FRAME_ID) \notin {Str("LEFT"), Str("RIGHT")} => ret = None
        /\ ret.t # "raise"

C1_Witness ==
    /\ op = "instrument_id"
    /\ base_instrument_id = "LROC"
    /\ label_get(FRAME_ID) = Str("LEFT")
    /\ ret = Str("LRO_LROCNACL")

\* C2: metakernel's first evaluation returns a *.tm file of the directory whose
\* base name holds str(year), the last of them in sorted order, and None when
\* there is none
C2_MetakernelFirst ==
    op = "metakernel" =>
        IF Matching = {} THEN ret = None
        ELSE /\ ret.t = "str"
             /\ Contains(basename(ret.v), str(utc_start_year))
             /\ \E m \in Matching :
                    /\ ret.v = PathOf(m)
                    /\ \A n \in Matching : ~StrLess(PathOf(m), PathOf(n))

C2_Witness ==
    /\ op = "metakernel"
    /\ Cardinality(Matching) >= 2
    /\ ret.t = "str"
    /\ Contains(config_lro, str(utc_start_year))

\* C3 as stated: no property read changes the attributes of the driver
C3_ReadOnly == [][attrs' = attrs /\ label' = label]_vars

\* C3 amended: a property read leaves the label and the attributes as they are,
\* but for the first read of metakernel, which adds the attribute _metakernel and
\* changes nothing else
C3_ReadOnlyButCache ==
    [][/\ label' = label
       /\ attrs' # attrs =>
              /\ op' = "metakernel"
              /\ ~Cached
              /\ DOMAIN attrs' = DOMAIN attrs \cup {"_metakernel"}
              /\ \A a \in DOMAIN attrs : attrs'[a] = attrs[a]]_vars

C3_Witness ==
    /\ op = "instrument_id"
    /\ Cached
    /\ DOMAIN attrs = {"_metakernel"}

\* C4: ephemeris_start_time is scs2e(spacecraft_id, preroll count) + 0.0
\* + 1024.0 * exposure_duration, with the driver's own (corrected) exposure_duration
C4_EphemerisStartTime ==
    (op = "ephemeris_start_time" /\ PREROLL_COUNT \in DOMAIN label) =>
        ret = Float(sclk[<<spacecraft_id, label[PREROLL_COUNT]>>] * 10000 + 0
                    + 1024 * (base_exposure_duration * 10045))

C4_Witness ==
    /\ op = "ephemeris_start_time"
    /\ PREROLL_COUNT \in DOMAIN label
    /\ base_exposure_duration = MaxExposure
    /\ sclk[<<spacecraft_id, label[PREROLL_COUNT]>>] = MaxEt
    /\ ret.t = "float"

\* C5: exposure_duration is base_exposure * (1 + 0.0045) + 0.0, that is
\* base_exposure * 1.0045, in fixed point: 10000 * result = base_exposure * 10045
C5_ExposureDuration ==
    op = "exposure_duration" => ret = Float(base_exposure_duration * 10045)

C5_Witness ==
    /\ op = "exposure_duration"
    /\ base_exposure_duration = MaxExposure
    /\ ret.t = "float"
    /\ ret.v > base_exposure_duration * 10000

\* C6: light_time_correction is 'NONE' for every label and kernel and after any
\* earlier reads
C6_LightTimeCorrection ==
    op = "light_time_correction" => ret = Str("NONE")

C6_Witness ==
    /\ op = "light_time_correction"
    /\ Cached
    /\ base_instrument_id # "LROC"

\* C7: usgscsm_distortion_model is a dict with the one key "lrolrocnac", whose
\* value is a dict with the one key "coefficients", the one-element list of the
\* first value the pool holds under INS<ikid>_OD_K
C7_DistortionModel ==
    (op = "usgscsm_distortion_model" /\ OD_K(ikid) \in DOMAIN pool) =>
        /\ ret.t = "dict"
        /\ DOMAIN ret.v = {"lrolrocnac"}
        /\ ret.v.lrolrocnac.t = "dict"
        /\ DOMAIN ret.v.lrolrocnac.v = {"coefficients"}
        /\ ret.v.lrolrocnac.v.coefficients = List(<<pool[OD_K(ikid)][1]>>)

C7_Witness ==
    /\ op = "usgscsm_distortion_model"
    /\ ikid = -85610
    /\ DOMAIN pool = {OD_K(i) : i \in IkIds}
    /\ Len(pool[OD_K(ikid)]) = MaxPoolLen
    /\ pool[OD_K(-85600)][1] # pool[OD_K(ikid)][1]
    /\ ret.t = "dict"

\* C8: spacecraft_name is instrument_host_id for every label: also when the label
\* has no SPACECRAFT_NAME, and when its SPACECRAFT_NAME is another name
C8_SpacecraftName ==
    op = "spacecraft_name" => ret = Str(instrument_host_id)

C8_Witness ==
    /\ op = "spacecraft_name"
    /\ SPACECRAFT_NAME \in DOMAIN label
    /\ label[SPACECRAFT_NAME] # instrument_host_id
    /\ ret = Str(instrument_host_id)

\* C9: every evaluation of metakernel returns self._metakernel, and once that
\* attribute is set (to a path or to None) no step changes it, whatever happens
\* to the directory and the start year: every later evaluation returns the
\* first one's value
C9_Memoized ==
    [][/\ op' = "metakernel" => (Cached' /\ ret' = attrs'["_metakernel"])
       /\ Cached => attrs' = attrs]_vars

C9_Witness ==
    /\ op = "metakernel"
    /\ Cached
    /\ ret = None
    /\ Matching # {}

\* C10: with a base instrument id other than "LROC", instrument_id is None for
\* every FRAME_ID, "LEFT" and "RIGHT" included
C10_OnlyLroc ==
    (op = "instrument_id" /\ base_instrument_id # "LROC") => ret = None

C10_Witness ==
    /\ op = "instrument_id"
    /\ base_instrument_id = "LROC-WAC"
    /\ label_get(FRAME_ID) = Str("RIGHT")
    /\ ret = None

====
